---- MODULE Spec2Model ----
(***************************************************************************)
(* Model of scripts/generate_topics.py.                                    *)
(*                                                                         *)
(*   SpecParse : the line loop of parse_markdown_file over the lines of a  *)
(*               "## 题材" section (lines[1:]), one action per line read.  *)
(*   Spec      : collect_all_topics folding parsed documents in any        *)
(*               discovery order, its finalization, and the renderer       *)
(*               generate_topic_files fed with its outputs.                *)
(*                                                                         *)
(* Text that the code inspects character by character (lines, comments)    *)
(* is a sequence of one-character strings.                                 *)
(***************************************************************************)
EXTENDS Naturals, Sequences, FiniteSets, TLC

\* ------------------------------------------------------------------ bounds

\* Number of lines of the section body fed to the parser.
MaxLines == 5

\* Number of markdown files discovered by rglob.
MaxDocs == 2

\* ------------------------------------------------------------ text helpers

\* Characters str.strip() and the regex class \s treat as whitespace.
WS == {" ", "\t", "\n"}

RECURSIVE LStrip(_)
LStrip(s) ==
  IF s # <<>> /\ Head(s) \in WS THEN LStrip(Tail(s)) ELSE s

RECURSIVE RStrip(_)
RStrip(s) ==
  IF s # <<>> /\ s[Len(s)] \in WS THEN RStrip(SubSeq(s, 1, Len(s) - 1)) ELSE s

\* str.strip()
Strip(s) == RStrip(LStrip(s))

\* '\n'.join(lines)
RECURSIVE Join(_)
Join(ls) ==
  IF ls = <<>> THEN <<>>
  ELSE IF Len(ls) = 1 THEN ls[1]
  ELSE ls[1] \o <<"\n">> \o Join(Tail(ls))

\* ------------------------------------------------- parser: classification

\* re.match(r'^###\s+(.+)$', line): three markers, at least one whitespace
\* character, and at least one more character (which \s+ gives back when
\* the rest of the line is whitespace only).
TopicMatch(line) ==
  /\ Len(line) >= 5
  /\ line[1] = "#" /\ line[2] = "#" /\ line[3] = "#"
  /\ line[4] \in WS

\* topic_match.group(1).strip()
TopicText(line) == Strip(SubSeq(line, 5, Len(line)))

\* re.match(r'^-\s+(.+)$', line)
ListMatch(line) ==
  /\ Len(line) >= 3
  /\ line[1] = "-"
  /\ line[2] \in WS

\* list_match.group(1).strip()
ListText(line) == Strip(SubSeq(line, 3, Len(line)))

\* line.strip() == ''
IsBlank(line) == Strip(line) = <<>>

\* current_topic = None; the code only tests current_topic for truth, and
\* None and '' are both false.
None == <<>>

\* ----------------------------------------------------- parser: loop body

\* attached_topics after a body line (lines 69-73).
NextAttachedTopics(line, att) ==
  IF ListMatch(line) /\ ListText(line) # <<>>
  THEN Append(att, ListText(line))
  ELSE att

\* in_list that a blank line does not switch off.
NextInListSticky(line, il) ==
  IF ListMatch(line) THEN TRUE ELSE il

\* in_list after a body line (lines 70-78).
NextInList(line, il) ==
  IF ListMatch(line) THEN TRUE
  ELSE IF IsBlank(line) THEN FALSE
  ELSE il

\* topic_content after a body line always appended, whatever in_list is.
NextTopicContentAlways(line, il, tc) ==
  IF ListMatch(line) THEN tc
  ELSE IF IsBlank(line) THEN (IF il THEN tc ELSE Append(tc, line))
  ELSE Append(tc, line)

\* topic_content after a body line (lines 70-84).
NextTopicContent(line, il, tc) ==
  IF ListMatch(line) THEN tc
  ELSE IF IsBlank(line) THEN (IF il THEN tc ELSE Append(tc, line))
  ELSE (IF ~il THEN Append(tc, line) ELSE tc)

\* The mention built from the loop's buffers (lines 56-59, 88-91).
Mention(tc, att) == [comment |-> Strip(Join(tc)), attached |-> att]

\* Saving keeps an entry the name already has.
SaveTopicKeepFirst(td, ct, tc, att) ==
  IF ct = None \/ ct \in DOMAIN td THEN td
  ELSE [k \in DOMAIN td \cup {ct} |-> IF k = ct THEN Mention(tc, att) ELSE td[k]]

\* if current_topic: topics_dict[current_topic] = {...} (lines 55-59, 87-91).
SaveTopic(td, ct, tc, att) ==
  IF ct = None THEN td
  ELSE [k \in DOMAIN td \cup {ct} |-> IF k = ct THEN Mention(tc, att) ELSE td[k]]

\* The lines the model feeds to the parser.
Line_T      == <<"#", "#", "#", " ", "T">>
Line_T2     == <<"#", "#", "#", " ", " ", "T">>
Line_U      == <<"#", "#", "#", " ", "U">>
Line_NoName == <<"#", "#", "#", " ", " ">>
Line_x      == <<"-", " ", "x">>
Line_y      == <<"-", " ", "y">>
Line_NoItem == <<"-", " ", " ">>
Line_Empty  == <<>>
Line_Space  == <<" ">>
Line_note   == <<"n", "o", "t", "e">>

Lines == { Line_T, Line_T2, Line_U, Line_NoName, Line_x, Line_y, Line_NoItem,
           Line_Empty, Line_Space, Line_note }

VARIABLES
  read,            \* the lines of the section consumed so far (history)
  current_topic,
  attached_topics,
  topic_content,
  in_list,
  topics_dict,
  ppc              \* "loop" inside the for loop, "returned" after line 93

pvars == <<read, current_topic, attached_topics, topic_content, in_list,
           topics_dict, ppc>>

\* The empty dict.
EmptyDict == [k \in {} |-> 0]

InitParse ==
  /\ read = <<>>
  /\ current_topic = None
  /\ attached_topics = <<>>
  /\ topic_content = <<>>
  /\ in_list = FALSE
  /\ topics_dict = EmptyDict
  /\ ppc = "loop"

\* One iteration of `for line in lines[1:]` (lines 50-84).
ReadLine(line) ==
  /\ ppc = "loop"
  /\ Len(read) < MaxLines
  /\ read' = Append(read, line)
  /\ ppc' = ppc
  /\ IF TopicMatch(line)
     THEN /\ topics_dict' = SaveTopic(topics_dict, current_topic,
                                      topic_content, attached_topics)
          /\ current_topic' = TopicText(line)
          /\ attached_topics' = <<>>
          /\ topic_content' = <<>>
          /\ in_list' = FALSE
     ELSE IF current_topic # None
     THEN /\ attached_topics' = NextAttachedTopics(line, attached_topics)
          /\ in_list' = NextInList(line, in_list)
          /\ topic_content' = NextTopicContent(line, in_list, topic_content)
          /\ UNCHANGED <<current_topic, topics_dict>>
     ELSE UNCHANGED <<current_topic, attached_topics, topic_content, in_list,
                      topics_dict>>

\* End of the loop: save the last mention and return (lines 86-93).
Return ==
  /\ ppc = "loop"
  /\ topics_dict' = SaveTopic(topics_dict, current_topic,
                              topic_content, attached_topics)
  /\ ppc' = "returned"
  /\ UNCHANGED <<read, current_topic, attached_topics, topic_content, in_list>>

NextParse == (\E line \in Lines : ReadLine(line)) \/ Return

\* ------------------------------------------------- aggregator: the corpus

StockNames == {"S1", "S2"}
Topics     == {"T1", "T2"}

\* The relative paths of the files rglob can discover, in sorted order.
PathNames == <<"f1", "f2", "f3", "f4">>
Paths == {PathNames[i] : i \in 1 .. MaxDocs}

\* Comments as returned by the parser (stripped character sequences).
NoComment  == <<>>
Comment_A  == <<"A">>
Comment_B  == <<"B">>
Comment_AB == <<"A", "B">>

\* Mentions (values of topics_dict) the documents carry under T1 and T2.
\* Attached names are never empty: the parser drops them (line 72).
Mentions1 ==
  { [comment |-> NoComment,  attached |-> <<>>],
    [comment |-> Comment_A,  attached |-> <<"x">>],
    [comment |-> Comment_B,  attached |-> <<"y">>],
    [comment |-> Comment_AB, attached |-> <<"y", "x">>] }

Mentions2 ==
  { [comment |-> NoComment, attached |-> <<"x">>],
    [comment |-> Comment_A, attached |-> <<"y", "y">>] }

Opt(S) == {{}} \cup {{m} : m \in S}

\* The topics_dict with the given (optional) mentions under T1 and T2.
DictOf(o1, o2) ==
  [t \in (IF o1 = {} THEN {} ELSE {"T1"}) \cup (IF o2 = {} THEN {} ELSE {"T2"})
     |-> IF t = "T1" THEN CHOOSE m \in o1 : TRUE ELSE CHOOSE m \in o2 : TRUE]

TopicsDicts == {DictOf(o1, o2) : o1 \in Opt(Mentions1), o2 \in Opt(Mentions2)}

\* A discovered file: its path, whether open/read/decode succeeds, and what
\* parse_markdown_file returns for its text.
Docs ==
  { [path |-> p, readable |-> TRUE, stock_name |-> s, topics |-> td] :
      p \in Paths, s \in StockNames, td \in TopicsDicts }
  \cup
  { [path |-> p, readable |-> FALSE, stock_name |-> "S1",
     topics |-> DictOf({[comment |-> Comment_A, attached |-> <<"x">>]}, {})] :
      p \in Paths }

\* ---------------------------------------------------- aggregator: helpers

\* Code-point order of the names the model uses.
NameOrder == <<"S1", "S2", "T1", "T2", "x", "y">>
Rank(n) == CHOOSE i \in 1 .. Len(NameOrder) : NameOrder[i] = n
Less(a, b) == Rank(a) < Rank(b)

\* sorted(list(S))
RECURSIVE Sorted(_)
Sorted(S) ==
  IF S = {} THEN <<>>
  ELSE LET m == CHOOSE x \in S : \A y \in S : ~Less(y, x)
       IN <<m>> \o Sorted(S \ {m})

Range(f) == {f[i] : i \in DOMAIN f}

\* a in b, for str
IsSubstring(a, b) ==
  \E i \in 0 .. Len(b) : i + Len(a) <= Len(b) /\ SubSeq(b, i + 1, i + Len(a)) = a

\* The defaultdict factory of main_topics (line 108).
NewMainTopic ==
  [stocks |-> {}, comment |-> NoComment, attached |-> <<>>,
   stock_attached |-> EmptyDict]

\* d[k] of a defaultdict(set)
GetSet(d, k) == IF k \in DOMAIN d THEN d[k] ELSE {}

\* d[k].add(v) of a defaultdict(set)
AddTo(d, k, v) ==
  [j \in DOMAIN d \cup {k} |-> IF j = k THEN GetSet(d, k) \cup {v} ELSE d[j]]

\* d[k] = {v}: the set is replaced, not extended.
AssignTo(d, k, v) ==
  [j \in DOMAIN d \cup {k} |-> IF j = k THEN {v} ELSE d[j]]

\* Lines 133-137.
MergeComment(old, new) ==
  IF new # <<>> /\ old = <<>> THEN new
  ELSE IF new # <<>> /\ ~IsSubstring(new, old) THEN old \o <<"\n">> \o new
  ELSE old

\* main_topics[main_topic]['stocks'] = {stock_name}: replaced, not extended.
AssignStock(stocks, stock_name) == {stock_name}

\* main_topics[main_topic]['stocks'].add(stock_name) (line 130).
AddStock(stocks, stock_name) == stocks \cup {stock_name}

\* The locator keyed by the file's name instead of the parsed stock name.
RecordPathByFile(stp, doc) ==
  [k \in DOMAIN stp \cup {doc.path} |-> IF k = doc.path THEN doc.path ELSE stp[k]]

\* stock_to_path[stock_name] = relative_path (lines 125-126).
RecordPath(stp, doc) ==
  [k \in DOMAIN stp \cup {doc.stock_name} |->
     IF k = doc.stock_name THEN doc.path ELSE stp[k]]

\* attached_to_main[a] = {main_topic}: replaced, not extended.
LinkMainReplace(a2m, a, main_topic) == AssignTo(a2m, a, main_topic)

\* attached_to_main[attached_topic].add(main_topic) (line 143).
LinkMain(a2m, a, main_topic) == AddTo(a2m, a, main_topic)

\* attached_to_stocks[a] = {stock_name}: replaced, not extended.
LinkStockReplace(a2s, a, stock_name) == AssignTo(a2s, a, stock_name)

\* attached_to_stocks[attached_topic].add(stock_name) (line 144).
LinkStock(a2s, a, stock_name) == AddTo(a2s, a, stock_name)

\* The accumulators of collect_all_topics (lines 108-117).
EmptyAcc ==
  [main_topics |-> EmptyDict, attached_to_main |-> EmptyDict,
   attached_to_stocks |-> EmptyDict, stock_to_path |-> EmptyDict]

\* main_topics[t] of the defaultdict
GetMainTopic(mt, t) == IF t \in DOMAIN mt THEN mt[t] ELSE NewMainTopic

SetMainTopic(mt, t, e) ==
  [k \in DOMAIN mt \cup {t} |-> IF k = t THEN e ELSE mt[k]]

\* for attached_topic in info['attached'] (lines 140-144), from index i on.
RECURSIVE FoldAttached(_, _, _, _, _)
FoldAttached(acc, main_topic, stock_name, att, i) ==
  IF i > Len(att) THEN acc
  ELSE LET a == att[i]
           e == GetMainTopic(acc.main_topics, main_topic)
           next ==
             IF a # ""
             THEN [acc EXCEPT
                     !.main_topics = SetMainTopic(acc.main_topics, main_topic,
                        [e EXCEPT !.stock_attached =
                                     AddTo(e.stock_attached, stock_name, a)]),
                     !.attached_to_main = LinkMain(acc.attached_to_main, a, main_topic),
                     !.attached_to_stocks = LinkStock(acc.attached_to_stocks, a, stock_name)]
             ELSE acc
       IN FoldAttached(next, main_topic, stock_name, att, i + 1)

\* The body of `for main_topic, info in topics_dict.items()` (lines 130-144).
FoldTopic(acc, main_topic, stock_name, info) ==
  LET e  == GetMainTopic(acc.main_topics, main_topic)
      e2 == [e EXCEPT !.stocks = AddStock(e.stocks, stock_name),
                      !.comment = MergeComment(e.comment, info.comment)]
      acc2 == [acc EXCEPT !.main_topics = SetMainTopic(acc.main_topics, main_topic, e2)]
  IN FoldAttached(acc2, main_topic, stock_name, info.attached, 1)

\* The loop over topics_dict.items(); a dict iterates in insertion order,
\* which for the parser's result is the order of the headings (T1 first).
RECURSIVE FoldTopics(_, _, _)
FoldTopics(acc, doc, ts) ==
  IF ts = <<>> THEN acc
  ELSE FoldTopics(FoldTopic(acc, Head(ts), doc.stock_name, doc.topics[Head(ts)]),
                  doc, Tail(ts))

\* The parser never raises.
ParseNeverRaises(doc) == FALSE

\* Whether parse_markdown_file(md_file) raises (open/read/decode, lines 23-24).
ParseRaises(doc) == ~doc.readable

\* One iteration of `for md_file in stocks_dir.rglob("*.md")` (lines 120-148).
FoldDoc(acc, doc) ==
  IF ParseRaises(doc) THEN acc
  ELSE FoldTopics([acc EXCEPT !.stock_to_path = RecordPath(acc.stock_to_path, doc)],
                  doc, Sorted(DOMAIN doc.topics))

\* Only the attached names every stock of the topic carries.
FinalAttachedCommon(e) ==
  IF DOMAIN e.stock_attached # {}
  THEN Sorted({a \in UNION Range(e.stock_attached) :
                 \A s \in DOMAIN e.stock_attached : a \in e.stock_attached[s]})
  ELSE <<>>

\* Lines 155-163.
FinalAttached(e) ==
  IF DOMAIN e.stock_attached # {}
  THEN Sorted(UNION Range(e.stock_attached))
  ELSE <<>>

\* Lines 151-163.
FinalizeTopics(mt) ==
  [t \in DOMAIN mt |->
     [mt[t] EXCEPT !.stocks = Sorted(mt[t].stocks),
                   !.attached = FinalAttached(mt[t])]]

\* ------------------------------------------------------------- renderer

\* One item of a stock list (lines 185-194, 230-235).
StockEntry(stock, stp) ==
  IF stock \in DOMAIN stp
  THEN [text |-> stock, link |-> TRUE, path |-> stp[stock]]
  ELSE [text |-> stock, link |-> FALSE, path |-> ""]

\* generate_main_topic_file (lines 178-202).
MainTopicFile(topic_name, topic_info, stp) ==
  [title |-> topic_name,
   stocks |-> [i \in 1 .. Len(topic_info.stocks) |-> StockEntry(topic_info.stocks[i], stp)],
   attached |-> topic_info.attached]

\* generate_attached_topic_file (lines 219-235).
AttachedTopicFile(attached_name, mts, attached_stocks, stp) ==
  [title |-> attached_name,
   main_topics |-> Sorted(mts),
   stocks |-> [i \in 1 .. Cardinality(attached_stocks) |->
                 StockEntry(Sorted(attached_stocks)[i], stp)]]

\* ---------------------------------------------------------- aggregator

VARIABLES
  main_topics,
  attached_to_main,
  attached_to_stocks,
  stock_to_path,
  folded,           \* the files iterated so far, in discovery order (history)
  pc,               \* "fold" in the rglob loop, "final" after line 165, "done"
  main_files,       \* topics/主题材/<name>.md
  attached_files    \* topics/附带题材/<name>.md

avars == <<main_topics, attached_to_main, attached_to_stocks, stock_to_path,
           folded, pc, main_files, attached_files>>

vars == <<pvars, avars>>

Acc ==
  [main_topics |-> main_topics, attached_to_main |-> attached_to_main,
   attached_to_stocks |-> attached_to_stocks, stock_to_path |-> stock_to_path]

InitCollect ==
  /\ main_topics = EmptyDict
  /\ attached_to_main = EmptyDict
  /\ attached_to_stocks = EmptyDict
  /\ stock_to_path = EmptyDict
  /\ folded = <<>>
  /\ pc = "fold"
  /\ main_files = EmptyDict
  /\ attached_files = EmptyDict

Init == InitParse /\ InitCollect

\* rglob yields the next file, in any order, and the loop body runs on it.
Fold(doc) ==
  /\ pc = "fold"
  /\ Len(folded) < MaxDocs
  /\ \A i \in 1 .. Len(folded) : folded[i].path # doc.path
  /\ LET acc == FoldDoc(Acc, doc)
     IN /\ main_topics' = acc.main_topics
        /\ attached_to_main' = acc.attached_to_main
        /\ attached_to_stocks' = acc.attached_to_stocks
        /\ stock_to_path' = acc.stock_to_path
  /\ folded' = Append(folded, doc)
  /\ UNCHANGED <<pc, main_files, attached_files, pvars>>

\* rglob is exhausted: lines 150-165.
Finalize ==
  /\ pc = "fold"
  /\ main_topics' = FinalizeTopics(main_topics)
  /\ pc' = "final"
  /\ UNCHANGED <<attached_to_main, attached_to_stocks, stock_to_path, folded,
                 main_files, attached_files, pvars>>

\* generate_topic_files on the aggregator's outputs (lines 263-273).
Generate ==
  /\ pc = "final"
  /\ main_files' =
       [t \in DOMAIN main_topics |-> MainTopicFile(t, main_topics[t], stock_to_path)]
  /\ attached_files' =
       [a \in DOMAIN attached_to_main |->
          AttachedTopicFile(a, attached_to_main[a],
                            GetSet(attached_to_stocks, a), stock_to_path)]
  /\ pc' = "done"
  /\ UNCHANGED <<main_topics, attached_to_main, attached_to_stocks, stock_to_path,
                 folded, pvars>>

Next == (\E doc \in Docs : Fold(doc)) \/ Finalize \/ Generate

Spec == Init /\ [][Next]_vars

ParseStep == ((\E line \in Lines : ReadLine(line)) \/ Return) /\ UNCHANGED avars

SpecParse == Init /\ [][ParseStep]_vars

\* ================================================================ claims

\* --------------------------------------------------------- parser claims

\* The line consumed by a ReadLine step.
StepLine == read'[Len(read')]

\* A step that reads a body line of an open mention which is neither a
\* heading nor an attached-topic item.
ReadsOtherLine ==
  /\ read' # read
  /\ current_topic # None
  /\ ~TopicMatch(StepLine)
  /\ ~ListMatch(StepLine)

\* C5 as stated: every line of a mention body that is neither an attached
\* item nor a blank line seen in list mode is appended verbatim to the
\* comment buffer, whatever the list-mode state is.
C5_AppendedWhateverListMode ==
  [][ (ReadsOtherLine /\ ~(IsBlank(StepLine) /\ in_list))
        => topic_content' = Append(topic_content, StepLine) ]_vars

\* C5 amended: such a line is appended verbatim when the parser is not in
\* list mode; read in list mode, a non-blank line is dropped: the comment
\* buffer and the attached names are unchanged and list mode stays on.
C5_AppendedOutsideListMode ==
  [][ /\ (ReadsOtherLine /\ ~in_list)
         => topic_content' = Append(topic_content, StepLine)
      /\ (ReadsOtherLine /\ in_list /\ ~IsBlank(StepLine))
         => /\ topic_content' = topic_content
            /\ attached_topics' = attached_topics
            /\ in_list' ]_vars

\* C5 witness: under one heading a text line was appended, then an item
\* opened list mode, then the same text line was read in list mode.
C5_Witness ==
  /\ read = <<Line_T, Line_note, Line_x, Line_note>>
  /\ topic_content = <<Line_note>>
  /\ in_list

\* The section body of the list-mode example: '- x', '- y', '', 'note'.
C6_Example == <<Line_T, Line_x, Line_y, Line_Empty, Line_note>>

\* C6: an attached item line enters list mode and appends its trimmed text
\* (when not empty) to attached_topics in encounter order; a blank line in
\* list mode leaves list mode and adds nothing to the comment; a line read
\* outside list mode is comment again; and the body '- x','- y','','note'
\* yields attached ['x','y'] and comment 'note'.
C6_ListMode ==
  /\ [][ (read' # read /\ current_topic # None /\ ~TopicMatch(StepLine)
            /\ ListMatch(StepLine))
         => /\ in_list'
            /\ topic_content' = topic_content
            /\ attached_topics' =
                 IF ListText(StepLine) # <<>>
                 THEN Append(attached_topics, ListText(StepLine))
                 ELSE attached_topics ]_vars
  /\ [][ (ReadsOtherLine /\ IsBlank(StepLine) /\ in_list)
         => /\ ~in_list'
            /\ topic_content' = topic_content
            /\ attached_topics' = attached_topics ]_vars
  /\ [][ (ReadsOtherLine /\ ~in_list)
         => /\ topic_content' = Append(topic_content, StepLine)
            /\ ~in_list' ]_vars
  /\ [](ppc = "returned" /\ read = C6_Example
        => topics_dict = [k \in {<<"T">>} |->
                            [comment |-> Line_note, attached |-> <<<<"x">>, <<"y">>>>]])

\* C6 witness: the example body has been parsed to the end.
C6_Witness ==
  /\ ppc = "returned"
  /\ read = C6_Example
  /\ <<"T">> \in DOMAIN topics_dict

\* Positions of the third-level headings read so far.
Headings == {i \in 1 .. Len(read) : TopicMatch(read[i])}

\* The lines after heading i up to the next heading or the section end.
BodyOf(i) ==
  LET later == {j \in Headings : j > i}
      stop  == IF later = {} THEN Len(read) + 1
               ELSE CHOOSE j \in later : \A k \in later : j <= k
  IN SubSeq(read, i + 1, stop - 1)

\* The mention one body yields when parsed on its own, from fresh buffers.
RECURSIVE ScanBody(_, _, _, _, _)
ScanBody(body, i, att, il, tc) ==
  IF i > Len(body) THEN Mention(tc, att)
  ELSE ScanBody(body, i + 1,
                NextAttachedTopics(body[i], att),
                NextInList(body[i], il),
                NextTopicContent(body[i], il, tc))

MentionOfBody(i) == ScanBody(BodyOf(i), 1, <<>>, FALSE, <<>>)

\* The last heading whose trimmed text is k.
LastHeading(k) ==
  CHOOSE i \in Headings :
    /\ TopicText(read[i]) = k
    /\ \A j \in Headings : TopicText(read[j]) = k => j <= i

\* C10: the returned dict has one mention per heading name, and it holds
\* only what the body of the last heading with that trimmed text yields;
\* the bodies of earlier headings with the same text leave no trace.
C10_LastHeadingWins ==
  ppc = "returned" =>
    /\ DOMAIN topics_dict = {TopicText(read[i]) : i \in Headings} \ {None}
    /\ \A k \in DOMAIN topics_dict :
         topics_dict[k] = MentionOfBody(LastHeading(k))

\* C10 witness: two headings with the same trimmed text whose bodies yield
\* different comments and different attached names, parsed to the end.
C10_Witness ==
  /\ ppc = "returned"
  /\ \E i, j \in Headings :
       /\ i < j
       /\ TopicText(read[i]) = TopicText(read[j])
       /\ TopicText(read[i]) # None
       /\ MentionOfBody(i).comment # MentionOfBody(j).comment
       /\ MentionOfBody(i).attached # MentionOfBody(j).attached
       /\ MentionOfBody(i).attached # <<>>

\* ----------------------------------------------------- aggregator claims

\* The files whose parse succeeded, in the order they were folded.
Parsed == SelectSeq(folded, LAMBDA d : d.readable)

\* The files of `seq` in sorted path order.
PathIndex(p) == CHOOSE i \in 1 .. Len(PathNames) : PathNames[i] = p

RECURSIVE ByPath(_)
ByPath(S) ==
  IF S = {} THEN <<>>
  ELSE LET d == CHOOSE x \in S : \A y \in S : PathIndex(x.path) <= PathIndex(y.path)
       IN <<d>> \o ByPath(S \ {d})

\* The rglob loop run over the files of `seq` in that order.
RECURSIVE FoldSeq(_, _)
FoldSeq(acc, seq) ==
  IF seq = <<>> THEN acc ELSE FoldSeq(FoldDoc(acc, Head(seq)), Tail(seq))

\* collect_all_topics run over the files of `seq` in that order.
Collect(seq) ==
  LET acc == FoldSeq(EmptyAcc, seq)
  IN [acc EXCEPT !.main_topics = FinalizeTopics(acc.main_topics)]

\* What the run returns when the same files are discovered in path order.
InPathOrder == Collect(ByPath(Range(folded)))

\* No two parsed documents resolve to the same stock identifier.
NoCollision ==
  \A i, j \in 1 .. Len(Parsed) :
    i # j => Parsed[i].stock_name # Parsed[j].stock_name

\* The mentions of topic t folded so far, each with the stock it came from.
MentionsUnder(t) ==
  {[stock |-> Parsed[i].stock_name, info |-> Parsed[i].topics[t]] :
     i \in {j \in 1 .. Len(Parsed) : t \in DOMAIN Parsed[j].topics}}

MentionedTopics == UNION {DOMAIN Parsed[i].topics : i \in 1 .. Len(Parsed)}

\* The distinct non-empty comments the folded mentions of t carry.
CommentsUnder(t) == {m.info.comment : m \in MentionsUnder(t)} \ {NoComment}

\* The parts of a returned result other than the MainTopic comments.
SameButComments(r1, r2) ==
  /\ DOMAIN r1.main_topics = DOMAIN r2.main_topics
  /\ \A t \in DOMAIN r1.main_topics :
       /\ r1.main_topics[t].stocks = r2.main_topics[t].stocks
       /\ r1.main_topics[t].attached = r2.main_topics[t].attached
  /\ r1.attached_to_main = r2.attached_to_main
  /\ r1.attached_to_stocks = r2.attached_to_stocks
  /\ r1.stock_to_path = r2.stock_to_path

\* C1 as stated: with no identifier collision, the complete output (stocks,
\* comment, attached, both attached mappings, the locator) is the same for
\* every discovery order: it equals the output of the path-ordered run.
C1_SameOutputAnyOrder ==
  (pc # "fold" /\ NoCollision) =>
    LET ref == InPathOrder
    IN /\ SameButComments(Acc, ref)
       /\ \A t \in DOMAIN main_topics :
            main_topics[t].comment = ref.main_topics[t].comment

\* C1 amended: with no identifier collision, every part of the output other
\* than the MainTopic comments is the same for every discovery order, and so
\* is the comment of each topic whose folded mentions carry at most one
\* distinct non-empty comment; otherwise the comment depends on the order.
C1_SameOutputButComments ==
  (pc # "fold" /\ NoCollision) =>
    LET ref == InPathOrder
    IN /\ SameButComments(Acc, ref)
       /\ \A t \in DOMAIN main_topics :
            Cardinality(CommentsUnder(t)) <= 1 =>
              main_topics[t].comment = ref.main_topics[t].comment

\* C1 witness: two documents with different identifiers were folded against
\* path order, both under T1 with different attached names, and the run
\* has returned.
C1_Witness ==
  /\ pc = "final"
  /\ NoCollision
  /\ Len(Parsed) = 2
  /\ PathIndex(folded[1].path) > PathIndex(folded[2].path)
  /\ \A i \in 1 .. 2 : "T1" \in DOMAIN folded[i].topics
  /\ Cardinality(CommentsUnder("T1")) = 2
  /\ DOMAIN attached_to_stocks = {"x", "y"}

IsSortedNoDup(seq) ==
  \A i, j \in 1 .. Len(seq) : i < j => Less(seq[i], seq[j])

\* C2: for every discovery order each MainTopic's finalized stocks and
\* attached lists are those of the path-ordered run, element for element,
\* and they are sorted without duplicates.
C2_SortedListsAnyOrder ==
  pc # "fold" =>
    LET ref == InPathOrder.main_topics
    IN /\ DOMAIN main_topics = DOMAIN ref
       /\ \A t \in DOMAIN main_topics :
            /\ main_topics[t].stocks = ref[t].stocks
            /\ main_topics[t].attached = ref[t].attached
            /\ IsSortedNoDup(main_topics[t].stocks)
            /\ IsSortedNoDup(main_topics[t].attached)

\* C2 witness: S2 was folded before S1 and y before x, against the sorted
\* order, both under T1, and the lists were finalized.
C2_Witness ==
  /\ pc = "final"
  /\ Len(Parsed) = 2
  /\ PathIndex(folded[1].path) > PathIndex(folded[2].path)
  /\ folded[1].stock_name = "S2" /\ folded[2].stock_name = "S1"
  /\ "T1" \in DOMAIN folded[1].topics /\ "T1" \in DOMAIN folded[2].topics
  /\ folded[1].topics["T1"].attached = <<"y">>
  /\ folded[2].topics["T1"].attached = <<"x">>
  /\ main_topics["T1"].stocks = <<"S1", "S2">>
  /\ main_topics["T1"].attached = <<"x", "y">>

\* C3: after the fold, the finalized attached list of every MainTopic T
\* holds exactly the names carried by the folded mentions under T.
C3_AttachedIsUnion ==
  pc # "fold" =>
    /\ DOMAIN main_topics = MentionedTopics
    /\ \A t \in DOMAIN main_topics :
         Range(main_topics[t].attached) =
           UNION {Range(m.info.attached) : m \in MentionsUnder(t)}

\* C3 witness: two stocks mention T1 with different attached names and the
\* finalized list holds both.
C3_Witness ==
  /\ pc = "final"
  /\ "T1" \in DOMAIN main_topics
  /\ \E m1, m2 \in MentionsUnder("T1") :
       /\ m1.stock # m2.stock
       /\ Range(m1.info.attached) = {"x"}
       /\ Range(m2.info.attached) = {"y"}
  /\ main_topics["T1"].attached = <<"x", "y">>

\* The comment of C4's rule, for the comments `cs` folded in that order:
\* `merged` is the text so far and `seen` the comments merged into it.
RECURSIVE ClaimedMerge(_, _, _)
ClaimedMerge(cs, merged, seen) ==
  IF cs = <<>> THEN merged
  ELSE LET c == Head(cs)
       IN IF c = <<>> THEN ClaimedMerge(Tail(cs), merged, seen)
          ELSE IF merged = <<>> THEN ClaimedMerge(Tail(cs), c, {c})
          ELSE IF c = merged \/ c \in seen THEN ClaimedMerge(Tail(cs), merged, seen)
          ELSE ClaimedMerge(Tail(cs), merged \o <<"\n">> \o c, seen \cup {c})

\* The comments of the mentions of t, in the order they were folded.
CommentSeq(t) ==
  LET ms == SelectSeq(Parsed, LAMBDA d : t \in DOMAIN d.topics)
  IN [i \in 1 .. Len(ms) |-> ms[i].topics[t].comment]

\* C4 as stated: an empty comment changes nothing, the first non-empty one
\* becomes the merged comment, each later non-empty one is appended after a
\* line break unless it exactly duplicates text already merged.
C4_CommentMerge ==
  \A t \in DOMAIN main_topics :
    main_topics[t].comment = ClaimedMerge(CommentSeq(t), <<>>, {})

\* C7: attached_to_main[a] is the set of main topics under which a folded
\* mention listed a, attached_to_stocks[a] the set of stocks whose mentions
\* listed a, and a name no folded mention listed has no entry.
C7_AttachedMappings ==
  LET listed(t) == UNION {Range(m.info.attached) : m \in MentionsUnder(t)}
      names == UNION {listed(t) : t \in MentionedTopics}
  IN /\ DOMAIN attached_to_main = names
     /\ DOMAIN attached_to_stocks = names
     /\ \A a \in names :
          /\ attached_to_main[a] = {t \in MentionedTopics : a \in listed(t)}
          /\ attached_to_stocks[a] =
               {s \in StockNames :
                  \E t \in MentionedTopics : \E m \in MentionsUnder(t) :
                    m.stock = s /\ a \in Range(m.info.attached)}

\* C7 witness: x is listed under both topics by both stocks, y by one
\* stock under one topic only.
C7_Witness ==
  /\ Len(Parsed) = 2
  /\ DOMAIN attached_to_main = {"x", "y"}
  /\ attached_to_main["x"] = {"T1", "T2"}
  /\ attached_to_stocks["x"] = {"S1", "S2"}
  /\ Cardinality(attached_to_main["y"]) = 1
  /\ Cardinality(attached_to_stocks["y"]) = 1

\* C8: a file whose parse fails is skipped: the accumulators, and after
\* the loop the returned result, are those of the run over the other
\* files alone, in the same order.
C8_FailedDocSkipped ==
  IF pc = "fold" THEN Acc = FoldSeq(EmptyAcc, Parsed)
  ELSE Acc = Collect(Parsed)

\* C8 witness: an unreadable file was met first, then a file with a
\* mention carrying attached names was folded, and the run has returned.
C8_Witness ==
  /\ pc = "final"
  /\ Len(folded) = 2
  /\ ~folded[1].readable
  /\ folded[2].readable
  /\ DOMAIN attached_to_main # {}
  /\ DOMAIN stock_to_path = {folded[2].stock_name}

\* The stocks of a MainTopic: a set during the fold, a list afterwards.
StocksOf(e) == IF pc = "fold" THEN e.stocks ELSE Range(e.stocks)

\* C9: every stock in a MainTopic's stocks or in an attached_to_stocks set
\* has a locator entry, so every stock item the renderer writes from the
\* aggregator's outputs is a link.
C9_EveryStockLocated ==
  /\ \A t \in DOMAIN main_topics : StocksOf(main_topics[t]) \subseteq DOMAIN stock_to_path
  /\ \A a \in DOMAIN attached_to_stocks : attached_to_stocks[a] \subseteq DOMAIN stock_to_path
  /\ pc = "done" =>
       /\ DOMAIN main_files = DOMAIN main_topics
       /\ DOMAIN attached_files = DOMAIN attached_to_main
       /\ \A t \in DOMAIN main_files :
            /\ Len(main_files[t].stocks) = Len(main_topics[t].stocks)
            /\ \A i \in 1 .. Len(main_files[t].stocks) : main_files[t].stocks[i].link
       /\ \A a \in DOMAIN attached_files :
            /\ Len(attached_files[a].stocks) = Cardinality(attached_to_stocks[a])
            /\ \A i \in 1 .. Len(attached_files[a].stocks) : attached_files[a].stocks[i].link

\* C9 witness: the renderer wrote a main-topic file and an attached-topic
\* file that each list two stocks.
C9_Witness ==
  /\ pc = "done"
  /\ \E t \in DOMAIN main_files : Len(main_files[t].stocks) = 2
  /\ \E a \in DOMAIN attached_files : Len(attached_files[a].stocks) = 2

====
